---- MODULE Spec2Model ----
(***************************************************************************)
(* A model of the UI-builder pipeline: the file-set merge, the build-output *)
(* error classifier, the TypeScript diagnostics parser, the file            *)
(* transformations, the progress tracker with its subscribers and the       *)
(* generation / repair / sandbox call chain.                                *)
(*                                                                          *)
(* Text is modelled as a sequence of tokens.  A token is either one of the  *)
(* literal markers the code searches for, a newline, a blank or a filler    *)
(* word, so String.includes is contiguous-subsequence search, split('\n')   *)
(* cuts at the newline token and trim() strips blanks at both ends.         *)
(***************************************************************************)
EXTENDS Integers, Sequences, FiniteSets, TLC

VARIABLES
    call,            \* the pure-function call under check: arguments and return value
    op,              \* which server action runs: generateApp or runBenchifyFixer
    input,           \* the server action's input record
    pc,              \* position of the single async call chain
    progressStore,   \* globalThis.__progressStore: sessionId -> ProgressState
    subscriber,      \* a callback handed to subscribe: its registration and poll timer
    llmFiles,        \* what the LLM stream delivered (NotCalled before the call)
    codePath,        \* which branch of generateAppCode ran
    filesToSandbox,  \* generateApp's const filesToSandbox
    repairedFiles,   \* generateApp / runBenchifyFixer's repairedFiles
    fixerOutcome,    \* how the fixer collaborator answered
    sandbox,         \* the sandbox handle and what was written into it
    attempt,         \* health-poll loop counter
    isServerReady,   \* health-poll loop flag
    buildErrors,     \* createSandbox's buildErrors array
    thrown,          \* the exception in flight, its message and origin
    result           \* what the server action returned (or raised)

vars == <<call, op, input, pc, progressStore, subscriber, llmFiles, codePath, filesToSandbox,
          repairedFiles, fixerOutcome, sandbox, attempt, isServerReady,
          buildErrors, thrown, result>>

pipelineVars == <<op, input, pc, progressStore, subscriber, llmFiles, codePath, filesToSandbox,
                  repairedFiles, fixerOutcome, sandbox, attempt, isServerReady,
                  buildErrors, thrown, result>>

\* JavaScript's undefined / null
Undefined == "undefined"

(***************************************************************************)
(* Bounds                                                                   *)
(***************************************************************************)
\* longest file list handed to mergeFiles
MaxFiles == 2
\* longest build output (in tokens) handed to the classifier
MaxOutputLen == 3

(***************************************************************************)
(* Files and the file-set merge (lib/openai.ts)                             *)
(***************************************************************************)
Paths == {"src/App.tsx", "src/index.css"}
Contents == {"old", "new"}
File == [path : Paths, contents : Contents]

SeqsUpTo(S, n) == UNION {[1..k -> S] : k \in 0..n}

PathsOf(files) == {files[i].path : i \in 1..Len(files)}
PairsOf(files) == {files[i] : i \in 1..Len(files)}
NoDuplicatePaths(files) ==
    \A i, j \in 1..Len(files) : files[i].path = files[j].path => i = j

\* Map.prototype.set on a Map kept as its entries in insertion order: an existing
\* key keeps its position and takes the new value, a new key goes to the end.
MapSet_alwaysAppend(map, file) == Append(map, file)
MapSet(map, file) ==
    IF \E i \in 1..Len(map) : map[i].path = file.path
    THEN [i \in 1..Len(map) |-> IF map[i].path = file.path THEN file ELSE map[i]]
    ELSE Append(map, file)

RECURSIVE MapSetAll(_, _)
MapSetAll(map, files) ==
    IF files = <<>> THEN map
    ELSE MapSetAll(MapSet(map, Head(files)), Tail(files))

\* new Map(existingFiles.map(f => [f.path, f])); updatedFiles.forEach(set);
\* Array.from(existingMap.values())
mergeFiles_updatesOnly(existingFiles, updatedFiles) == MapSetAll(<<>>, updatedFiles)
mergeFiles(existingFiles, updatedFiles) ==
    MapSetAll(MapSetAll(<<>>, existingFiles), updatedFiles)

(***************************************************************************)
(* Text as token sequences                                                  *)
(***************************************************************************)
NL == "\n"
Blank == " "
Filler == "x"

\* String.prototype.includes
includes(text, marker) ==
    \E i \in 1..(Len(text) - Len(marker) + 1) :
        SubSeq(text, i, i + Len(marker) - 1) = marker

\* String.prototype.split('\n'): always at least one (possibly empty) line
RECURSIVE splitLines(_)
splitLines(text) ==
    IF \A i \in 1..Len(text) : text[i] # NL THEN <<text>>
    ELSE LET k == CHOOSE i \in 1..Len(text) :
                      text[i] = NL /\ \A j \in 1..(i - 1) : text[j] # NL
         IN <<SubSeq(text, 1, k - 1)>> \o splitLines(SubSeq(text, k + 1, Len(text)))

\* String.prototype.trim on one line
RECURSIVE trim(_)
trim(line) ==
    IF line = <<>> THEN line
    ELSE IF Head(line) = Blank THEN trim(Tail(line))
    ELSE IF line[Len(line)] = Blank THEN trim(SubSeq(line, 1, Len(line) - 1))
    ELSE line

(***************************************************************************)
(* Error classifier (lib/error-detection.ts)                                *)
(***************************************************************************)
\* the code-error markers, one token each
CodeMarkers ==
    {"SyntaxError", "Unexpected token", "Parse error", "Unterminated string",
     "Cannot resolve module", "Module not found", "Cannot resolve import"}

\* tokens the infrastructure markers are made of
EACCES == "EACCES: permission denied"
FailedToLoadConfig == "failed to load config"
FromViteConfig == " from /app/vite.config.ts"
ErrorStartingDevServer == "error when starting dev server"
ViteTemp == "/app/node_modules/.vite-temp/"

\* the infrastructure markers detectCodeErrors looks for in the whole output
OutputInfraMarkers ==
    {<<EACCES>>, <<FailedToLoadConfig, FromViteConfig>>,
     <<ErrorStartingDevServer>>, <<ViteTemp>>}
\* the infrastructure markers parseErrorsFromOutput looks for in one line
LineInfraMarkers ==
    {<<EACCES>>, <<FailedToLoadConfig>>, <<ErrorStartingDevServer>>, <<ViteTemp>>}

Tokens ==
    CodeMarkers \cup
    {EACCES, FailedToLoadConfig, FromViteConfig, ErrorStartingDevServer, ViteTemp,
     NL, Blank, Filler}

hasCodeErrorIn(text) == \E m \in CodeMarkers : includes(text, <<m>>)
isInfrastructureErrorIn(text, markers) == \E m \in markers : includes(text, m)

RECURSIVE parseLines(_)
parseLines(lines) ==
    IF lines = <<>> THEN <<>>
    ELSE LET line == Head(lines)
             hasCodeError == hasCodeErrorIn(line)
             isInfrastructureError == isInfrastructureErrorIn(line, LineInfraMarkers)
         IN (IF hasCodeError /\ ~isInfrastructureError
             THEN <<[type |-> "build", message |-> trim(line)]>>
             ELSE <<>>) \o parseLines(Tail(lines))

parseErrorsFromOutput(output) == parseLines(splitLines(output))

detectCodeErrors_noInfraBranch(output) ==
    LET hasCodeErrors == hasCodeErrorIn(output)
        isInfrastructureError == isInfrastructureErrorIn(output, OutputInfraMarkers)
    IN IF hasCodeErrors /\ ~isInfrastructureError
       THEN [hasErrors |-> TRUE, errors |-> parseErrorsFromOutput(output),
             isInfrastructureOnly |-> FALSE]
       ELSE [hasErrors |-> FALSE, errors |-> <<>>, isInfrastructureOnly |-> FALSE]
detectCodeErrors(output) ==
    LET hasCodeErrors == hasCodeErrorIn(output)
        isInfrastructureError == isInfrastructureErrorIn(output, OutputInfraMarkers)
    IN IF hasCodeErrors /\ ~isInfrastructureError
       THEN [hasErrors |-> TRUE, errors |-> parseErrorsFromOutput(output),
             isInfrastructureOnly |-> FALSE]
       ELSE IF isInfrastructureError /\ ~hasCodeErrors
       THEN [hasErrors |-> FALSE, errors |-> <<>>, isInfrastructureOnly |-> TRUE]
       ELSE [hasErrors |-> FALSE, errors |-> <<>>, isInfrastructureOnly |-> FALSE]

(***************************************************************************)
(* TypeScript diagnostics (lib/error-detection.ts, parseTypeScriptErrors)   *)
(* A diagnostic line is a sequence of tokens: pieces of a path, the         *)
(* location "(line,column)", the ": error TSxxxx: " separator and pieces of *)
(* a message.                                                               *)
(***************************************************************************)
\* longest compiler output (in tokens) handed to parseTypeScriptErrors
MaxTsLen == 5

AppDir == "/app/"
PathText == "src"
FileName == "page.tsx"
TsLoc == "(10,5)"
TsErr == ": error TS2304: "
TsMessage == "Cannot find name 'Foo'."
TsDeprecated == "'foo' is Deprecated."

TsTokens == {AppDir, PathText, FileName, TsLoc, TsErr, TsMessage, TsDeprecated, Blank, NL}

\* the digits the location token carries, and parseInt on them
TsLocDigits == [line |-> "10", column |-> "5"]
parseInt(digits) == IF digits = "10" THEN 10 ELSE IF digits = "5" THEN 5 ELSE -1

\* String.prototype.toLowerCase on one token
toLowerCase(token) == IF token = TsDeprecated THEN "'foo' is deprecated." ELSE token

\* the tokens whose text holds 'deprecated', 'unused' or 'implicit any'
NonCriticalTokens == {"'foo' is deprecated."}

\* line.match(/(.+)\((\d+),(\d+)\): error TS\d+: (.+)/): the regex is not anchored
\* and its first group is greedy, so the location taken is the last one that has
\* at least one character before it and one after the separator; 0 is no match
TsMatchAt(line, i) ==
    /\ i >= 2 /\ i + 1 < Len(line)
    /\ line[i] = TsLoc /\ line[i + 1] = TsErr
match(line) ==
    IF \E i \in 1..Len(line) : TsMatchAt(line, i)
    THEN CHOOSE i \in 1..Len(line) :
             TsMatchAt(line, i) /\ \A j \in (i + 1)..Len(line) : ~TsMatchAt(line, j)
    ELSE 0

\* String.prototype.replace(token, ''): the first occurrence is removed, wherever
\* it stands
replaceFirst(text, token) ==
    IF \E i \in 1..Len(text) : text[i] = token
    THEN LET k == CHOOSE i \in 1..Len(text) :
                      text[i] = token /\ \A j \in 1..(i - 1) : text[j] # token
         IN SubSeq(text, 1, k - 1) \o SubSeq(text, k + 1, Len(text))
    ELSE text

RECURSIVE parseTsLines(_)
parseTsLines(lines) ==
    IF lines = <<>> THEN <<>>
    ELSE LET line == Head(lines)
             m == match(line)
             file == SubSeq(line, 1, m - 1)
             message == SubSeq(line, m + 2, Len(line))
             nonCritical == \E i \in 1..Len(message) :
                                toLowerCase(message[i]) \in NonCriticalTokens
         IN (IF m # 0 /\ ~nonCritical
             THEN <<[type |-> "typescript",
                     message |-> trim(message),
                     file |-> replaceFirst(file, AppDir),
                     line |-> parseInt(TsLocDigits.line),
                     column |-> parseInt(TsLocDigits.column)]>>
             ELSE <<>>) \o parseTsLines(Tail(lines))

parseTypeScriptErrors(stderr) == parseTsLines(splitLines(stderr))

(***************************************************************************)
(* File transformations (lib/sandbox-helpers.ts)                            *)
(* The contents of a file are a sequence of tokens, one statement each, on  *)
(* lines of their own.                                                      *)
(***************************************************************************)
\* longest file contents (in tokens) handed to applyTransformations
MaxContentLen == 3

TailwindV3 == "@tailwind base;"
TailwindV4 == "@import \"tailwindcss\";"
ImportSingle == "import ReactDOM from 'react-dom';"
ImportDouble == "import ReactDOM from \"react-dom\";"
ImportClientSingle == "import ReactDOM from 'react-dom/client';"
ImportClientDouble == "import ReactDOM from \"react-dom/client\";"
\* a render call of the expected shape, one of another shape, and one with a single
\* argument
RenderLegacy == "ReactDOM.render(<App />, document.getElementById('root'))"
RenderOdd == "ReactDOM.render(<App />, container)"
RenderBare == "ReactDOM.render(<App />)"
CreateRoot ==
    "ReactDOM.createRoot(document.getElementById('root') as HTMLElement).render(<App />)"
CreateRootOdd ==
    "ReactDOM.createRoot(document.getElementById('root') as HTMLElement).render(<App />, container)"

\* file.path.endsWith('.css'); file.path.endsWith('.tsx') || file.path.endsWith('.jsx')
CssPaths == {"src/index.css"}
JsxPaths == {"src/App.tsx", "src/main.tsx", "src/main.jsx", "src/StringIssues.tsx"}

\* the tokens whose text holds 'ReactDOM.render('
RenderTokens == {RenderLegacy, RenderOdd, RenderBare}

\* String.prototype.replace(searchString, replacement): the first occurrence only
replaceString(text, search, replacement) ==
    IF \E i \in 1..Len(text) : text[i] = search
    THEN LET k == CHOOSE i \in 1..Len(text) :
                      text[i] = search /\ \A j \in 1..(i - 1) : text[j] # search
         IN [text EXCEPT ![k] = replacement]
    ELSE text

\* what "ReactDOM.createRoot(document.getElementById('$2') as HTMLElement).render("
\* followed by the text after "ReactDOM.render(" makes of the token the match begins in
createRootHead(token) == IF token = RenderOdd THEN CreateRootOdd ELSE CreateRoot

\* contents.replace(/ReactDOM\.render\(\s*([\s\S]*?),\s*document\.getElementById\(
\* ['"](.*)['"]\)\s*\)/, "ReactDOM.createRoot(document.getElementById('$2') as
\* HTMLElement).render($1)").  No g flag: one match, the leftmost.  The match begins
\* at the first 'ReactDOM.render(' and its lazy first group runs, across lines, to
\* the first ", document.getElementById('..'))" at or after it.
replaceRender(text) ==
    IF \E i \in 1..Len(text) : text[i] \in RenderTokens
    THEN LET b == CHOOSE i \in 1..Len(text) :
                      text[i] \in RenderTokens
                      /\ \A j \in 1..(i - 1) : text[j] \notin RenderTokens
         IN IF \E i \in b..Len(text) : text[i] = RenderLegacy
            THEN LET e == CHOOSE i \in b..Len(text) :
                              text[i] = RenderLegacy
                              /\ \A j \in b..(i - 1) : text[j] # RenderLegacy
                 IN IF e = b THEN [text EXCEPT ![b] = CreateRoot]
                    ELSE [text EXCEPT ![b] = createRootHead(text[b]),
                                      ![e] = RenderBare]
            ELSE text
    ELSE text

tailwindSyntax(files) ==
    [i \in 1..Len(files) |->
        IF files[i].path \in CssPaths /\ includes(files[i].contents, <<TailwindV3>>)
        THEN [files[i] EXCEPT !.contents = <<TailwindV4>>]
        ELSE files[i]]

reactDomRender(files) ==
    [i \in 1..Len(files) |->
        IF files[i].path \in JsxPaths
           /\ \E k \in 1..Len(files[i].contents) : files[i].contents[k] \in RenderTokens
        THEN [files[i] EXCEPT !.contents =
                 replaceRender(
                     replaceString(
                         replaceString(@, ImportSingle, ImportClientSingle),
                         ImportDouble, ImportClientDouble))]
        ELSE files[i]]

\* the array returned is the array passed in, and the file objects are rewritten in
\* place: the value below is what both the caller's array and the return value hold
\* after the call
applyTransformations(files) == reactDomRender(tailwindSyntax(files))

(***************************************************************************)
(* Progress tracker (lib/types.ts, class ProgressTracker)                   *)
(***************************************************************************)
SessionIds == {"s1", "s2"}
NoState == [absent |-> TRUE]

\* JavaScript truthiness of an optional string
Truthy(s) == s # Undefined /\ s # ""

\* Array.prototype.findIndex on the step ids, 0-based, -1 when absent
findIndex(steps, stepId) ==
    IF \E i \in 1..Len(steps) : steps[i].id = stepId
    THEN (CHOOSE i \in 1..Len(steps) :
              steps[i].id = stepId /\ \A j \in 1..(i - 1) : steps[j].id # stepId) - 1
    ELSE -1

\* constructor(sessionId, steps)
newTracker(store, sessionId, stepIds) ==
    [store EXCEPT ![sessionId] =
        [sessionId |-> sessionId,
         steps |-> [i \in 1..Len(stepIds) |->
                       [id |-> stepIds[i], status |-> "pending", error |-> Undefined]],
         currentStepIndex |-> -1,
         isComplete |-> FALSE,
         hasError |-> FALSE]]

startStep_keepsIndex(store, sessionId, stepId) ==
    IF store[sessionId] = NoState THEN store
    ELSE LET state == store[sessionId]
             stepIndex == findIndex(state.steps, stepId)
         IN IF stepIndex = -1 THEN store
            ELSE [store EXCEPT ![sessionId] =
                     [state EXCEPT !.steps[stepIndex + 1].status = "in-progress"]]
startStep(store, sessionId, stepId) ==
    IF store[sessionId] = NoState THEN store
    ELSE LET state == store[sessionId]
             stepIndex == findIndex(state.steps, stepId)
         IN IF stepIndex = -1 THEN store
            ELSE [store EXCEPT ![sessionId] =
                     [state EXCEPT !.steps[stepIndex + 1].status = "in-progress",
                                   !.currentStepIndex = stepIndex]]

completeStep_anyComplete(store, sessionId, stepId) ==
    IF store[sessionId] = NoState THEN store
    ELSE LET state == store[sessionId]
             stepIndex == findIndex(state.steps, stepId)
         IN IF stepIndex = -1 THEN store
            ELSE LET steps == [state.steps EXCEPT ![stepIndex + 1].status = "completed"]
                 IN [store EXCEPT ![sessionId] =
                        [state EXCEPT !.steps = steps, !.isComplete = TRUE]]
completeStep(store, sessionId, stepId) ==
    IF store[sessionId] = NoState THEN store
    ELSE LET state == store[sessionId]
             stepIndex == findIndex(state.steps, stepId)
         IN IF stepIndex = -1 THEN store
            ELSE LET steps == [state.steps EXCEPT ![stepIndex + 1].status = "completed"]
                     allComplete == \A i \in 1..Len(steps) : steps[i].status = "completed"
                 IN [store EXCEPT ![sessionId] =
                        [state EXCEPT !.steps = steps,
                                      !.isComplete = IF allComplete THEN TRUE ELSE @]]

errorStep(store, sessionId, stepId, errorMessage) ==
    IF store[sessionId] = NoState THEN store
    ELSE LET state == store[sessionId]
             stepIndex == findIndex(state.steps, stepId)
         IN IF stepIndex = -1 THEN store
            ELSE [store EXCEPT ![sessionId] =
                     [state EXCEPT !.steps[stepIndex + 1].status = "error",
                                   !.steps[stepIndex + 1].error = errorMessage,
                                   !.hasError = TRUE]]

\* cleanup(): the session's entry is deleted from the registry
cleanup(store, sessionId) == [store EXCEPT ![sessionId] = NoState]

\* no callback has been handed to subscribe
NoSubscriber == [kind |-> "none"]

\* maxAttempts of the static subscribe's poll
MaxPollAttempts == 20

\* callback(state): first keeps the first state the callback was called with, late
\* whether the callback was ever called after its unsubscribe function had run
deliver(sub, state) ==
    [sub EXCEPT !.first = IF @ = NoState THEN state ELSE @,
                !.late = @ \/ ~sub.registered,
                !.foreign = @ \/ state.sessionId # sub.session]

\* subscribe(callback) of the instance: the callback is added and called with the
\* current state if there is one
instanceSubscribe_noReplay(sessionId, state) ==
    [kind |-> "instance", session |-> sessionId, registered |-> TRUE, atSubscribe |-> state,
     first |-> NoState, polling |-> FALSE, attempts |-> 0, polled |-> 0,
                  late |-> FALSE, foreign |-> FALSE]
instanceSubscribe(sessionId, state) ==
    LET added == [kind |-> "instance", session |-> sessionId, registered |-> TRUE, atSubscribe |-> state,
                  first |-> NoState, polling |-> FALSE, attempts |-> 0, polled |-> 0,
                  late |-> FALSE, foreign |-> FALSE]
    IN IF state # NoState THEN deliver(added, state) ELSE added

\* ProgressTracker.subscribe(sessionId, callback): the callback is added to the
\* session's set, then called with the existing state, or else the poll is scheduled
staticSubscribe(sessionId, state) ==
    LET added == [kind |-> "static", session |-> sessionId, registered |-> TRUE, atSubscribe |-> state,
                  first |-> NoState, polling |-> FALSE, attempts |-> 0, polled |-> 0,
                  late |-> FALSE, foreign |-> FALSE]
    IN IF state # NoState THEN deliver(added, state)
       ELSE [added EXCEPT !.polling = TRUE]

\* one run of pollForState: polling says whether the next run is scheduled
pollForState_pollsOn(sub, state) ==
    LET counted == [sub EXCEPT !.attempts = @ + 1]
    IN IF state # NoState
       THEN [deliver(counted, state) EXCEPT !.polled = @ + 1,
                                            !.polling = counted.attempts < MaxPollAttempts]
       ELSE [counted EXCEPT !.polling = counted.attempts < MaxPollAttempts]
pollForState(sub, state) ==
    LET counted == [sub EXCEPT !.attempts = @ + 1]
    IN IF state # NoState
       THEN [deliver(counted, state) EXCEPT !.polled = @ + 1, !.polling = FALSE]
       ELSE IF counted.attempts < MaxPollAttempts
       THEN [counted EXCEPT !.polling = TRUE]
       ELSE [counted EXCEPT !.polling = FALSE]

\* emitUpdate of the tracker of sessionId: the session's state, if there is one,
\* goes to the instance's subscribers and to the static callbacks of that session
emitUpdate_allSessions(sub, store, sessionId) ==
    IF store[sessionId] # NoState /\ sub # NoSubscriber /\ sub.registered
    THEN deliver(sub, store[sessionId])
    ELSE sub
emitUpdate(sub, store, sessionId) ==
    IF /\ store[sessionId] # NoState
       /\ sub # NoSubscriber /\ sub.registered /\ sub.session = sessionId
    THEN deliver(sub, store[sessionId])
    ELSE sub

\* which of the two early returns a call of startStep, completeStep or errorStep
\* takes, if any
earlyReturn(store, sessionId, stepId) ==
    IF store[sessionId] = NoState THEN "no-state"
    ELSE IF findIndex(store[sessionId].steps, stepId) = -1 THEN "no-step"
    ELSE "none"

\* this.emitUpdate() at the end of the three methods, past the early returns: store
\* is the registry at the call, after the registry the method leaves
emitAfter_always(store, after, sub, sessionId, stepId) ==
    IF store[sessionId] # NoState
    THEN emitUpdate(sub, after, sessionId)
    ELSE sub
emitAfter(store, after, sub, sessionId, stepId) ==
    IF earlyReturn(store, sessionId, stepId) = "none"
    THEN emitUpdate(sub, after, sessionId)
    ELSE sub

\* this.subscribers.clear() of cleanup: the instance's callbacks are dropped, the
\* session's static callbacks stay
clearSubscribers(sub, sessionId) ==
    IF sub # NoSubscriber /\ sub.kind = "instance" /\ sub.session = sessionId
    THEN [sub EXCEPT !.registered = FALSE]
    ELSE sub

(***************************************************************************)
(* The call chain: generateApp (lib/actions/generate-app.ts),               *)
(* runBenchifyFixer (lib/actions/benchify-fixer.ts), generateAppCode        *)
(* (lib/openai.ts), createSandbox and updateSandboxFiles (lib/e2b.ts).      *)
(* One step per awaited collaborator call; a collaborator's answer is a     *)
(* choice over what it can return or throw.  File contents are atoms here.  *)
(***************************************************************************)
PkgNewDeps == "{dependencies: {lodash: ^4}}"

AppOld == [path |-> "src/App.tsx", contents |-> <<"old">>]
AppNew == [path |-> "src/App.tsx", contents |-> <<"new">>]
CssNew == [path |-> "src/index.css", contents |-> <<TailwindV3>>]
PkgNew == [path |-> "package.json", contents |-> <<PkgNewDeps>>]

\* an optional array argument
NotGiven == [given |-> FALSE, files |-> <<>>]
Given(files) == [given |-> TRUE, files |-> files]

\* the value of a variable that should hold a file array
Unset == [kind |-> "unset", files |-> <<>>]
Arr(files) == [kind |-> "array", files |-> files]
Malformed == [kind |-> "malformed", files |-> <<>>]

ExistingFilesInputs == {NotGiven, Given(<<>>), Given(<<AppOld>>)}
EditInstructions == {Undefined, "", "make it red"}
SandboxIds == {Undefined, "sbx-1"}
FixerInputFiles == {<<AppOld>>, <<CssNew>>}

\* what the LLM stream can deliver: a transport error or a list of files
LLMStreams ==
    {[throws |-> TRUE, files |-> <<>>]} \cup
    {[throws |-> FALSE, files |-> f] : f \in {<<>>, <<CssNew>>, <<AppNew, PkgNew>>}}

\* the fixer's all_files for a given request
FixedFiles(files) ==
    [i \in 1..Len(files) |->
        IF files[i].path = "src/App.tsx" THEN [files[i] EXCEPT !.contents = <<"fixed">>]
        ELSE files[i]]

NoError == [message |-> "", by |-> "none", at |-> "none"]
NoResult == [pending |-> TRUE]
\* install is what the install command did, if it ran
NoSandbox == [id |-> Undefined, mode |-> "none", written |-> <<>>, install |-> "none"]
NotCalled == [called |-> FALSE, throws |-> FALSE, files |-> <<>>]

\* createNewApp: the files of the stream, or a throw
createNewApp(stream) ==
    IF stream.throws
    THEN [ok |-> FALSE, files |-> <<>>, message |-> "LLM request failed"]
    ELSE IF Len(stream.files) = 0
    THEN [ok |-> FALSE, files |-> <<>>,
          message |-> "Failed to generate files - received empty response"]
    ELSE [ok |-> TRUE, files |-> stream.files, message |-> ""]

\* editApp: the stream's files merged into the existing ones, or a throw
editApp_noEmptyCheck(existingFiles, stream) ==
    IF stream.throws
    THEN [ok |-> FALSE, files |-> <<>>, message |-> "LLM request failed"]
    ELSE [ok |-> TRUE, files |-> mergeFiles(existingFiles, stream.files), message |-> ""]
editApp(existingFiles, stream) ==
    IF stream.throws
    THEN [ok |-> FALSE, files |-> <<>>, message |-> "LLM request failed"]
    ELSE IF Len(stream.files) = 0
    THEN [ok |-> FALSE, files |-> <<>>,
          message |-> "Failed to generate updated files - received empty response"]
    ELSE [ok |-> TRUE, files |-> mergeFiles(existingFiles, stream.files), message |-> ""]

\* the debug fixture, or its fallback when the fixture file cannot be read
buggyCode(readable) ==
    IF readable
    THEN <<[path |-> "src/StringIssues.tsx", contents |-> <<"string-issues.txt">>]>>
    ELSE <<[path |-> "src/App.tsx", contents |-> <<"console.log('Hello World')">>]>>

\* generateAppCode: which branch runs and what it returns
generateAppCode_buggyFirst(existingFiles, editInstruction, useBuggyCode, stream, readable) ==
    IF useBuggyCode
    THEN [path |-> "fixture", ok |-> TRUE, files |-> buggyCode(readable), message |-> ""]
    ELSE IF existingFiles.given /\ Truthy(editInstruction)
    THEN [path |-> "edit"] @@ editApp(existingFiles.files, stream)
    ELSE [path |-> "generate"] @@ createNewApp(stream)
generateAppCode(existingFiles, editInstruction, useBuggyCode, stream, readable) ==
    IF existingFiles.given /\ Truthy(editInstruction)
    THEN [path |-> "edit"] @@ editApp(existingFiles.files, stream)
    ELSE IF useBuggyCode
    THEN [path |-> "fixture", ok |-> TRUE, files |-> buggyCode(readable), message |-> ""]
    ELSE [path |-> "generate"] @@ createNewApp(stream)

\* the step list each server action declares
stepsFor(action, useFixer, existingSandboxId) ==
    (IF action = "generateApp"
     THEN <<"generating-code">> \o (IF useFixer THEN <<"fixing-code">> ELSE <<>>)
     ELSE <<"running-fixer">>)
    \o (IF Truthy(existingSandboxId)
        THEN <<"updating-files", "installing-deps", "hot-reloading",
               "verifying-update", "finalizing-preview">>
        ELSE <<"creating-sandbox", "installing-deps", "starting-server",
               "finalizing-preview">>)

\* progressTracker?.startStep / completeStep / errorStep
tStart(store, stepId) ==
    IF Truthy(input.sessionId) THEN startStep(store, input.sessionId, stepId) ELSE store
tComplete(store, stepId) ==
    IF Truthy(input.sessionId) THEN completeStep(store, input.sessionId, stepId) ELSE store
tError(store, stepId, message) ==
    IF Truthy(input.sessionId) THEN errorStep(store, input.sessionId, stepId, message)
    ELSE store

UpdateMode == Truthy(input.existingSandboxId)

\* extractNewPackages: the declared packages that are not in the base template
extractNewPackages(contents) ==
    IF contents = <<PkgNewDeps>> THEN <<"lodash@^4">> ELSE <<>>

needsInstall(files) ==
    \E i \in 1..Len(files) :
        /\ files[i].path = "package.json"
        /\ \A j \in 1..(i - 1) : files[j].path # "package.json"
        /\ Len(extractNewPackages(files[i].contents)) > 0

\* health-poll attempts
MaxAttemptsFresh == 20
MaxAttemptsUpdate == 10
maxAttempts == IF UpdateMode THEN MaxAttemptsUpdate ELSE MaxAttemptsFresh

\* the positions the try block of the server action covers
Positions ==
    {"generateAppCode", "runFixer", "fixer.run", "create", "connect", "files.write",
     "npm-install", "dev-server", "hot-reload", "health-check", "health-sleep",
     "post-check",
     "read-back"}
InTryBlock_provisionOutside(position) ==
    position \in {"generateAppCode", "runFixer", "fixer.run"}
InTryBlock(position) == position \in Positions

\* an exception leaves the current position
Throw(at, message, by) ==
    /\ thrown' = [message |-> message, by |-> by, at |-> at]
    /\ pc' = "catch"

\* where provisioning starts: updateSandboxFiles or startStep + createSandbox
provisionStore(store) == IF UpdateMode THEN store ELSE tStart(store, "creating-sandbox")
provisionPc == IF UpdateMode THEN "connect" ELSE "create"

\* after the dependency installation
afterInstallStore_noComplete(store) ==
    IF UpdateMode THEN tStart(store, "hot-reloading") ELSE tStart(store, "starting-server")
afterInstallStore(store) ==
    IF UpdateMode THEN tStart(tComplete(store, "installing-deps"), "hot-reloading")
    ELSE tStart(tComplete(store, "installing-deps"), "starting-server")
afterInstallPc == IF UpdateMode THEN "hot-reload" ELSE "dev-server"

(***************************************************************************)
(* Actions of the call chain                                                *)
(***************************************************************************)
PipelineInit ==
    /\ pc = "init"
    /\ progressStore = [s \in SessionIds |-> NoState]
    /\ subscriber = NoSubscriber
    /\ llmFiles = NotCalled
    /\ codePath = "none"
    /\ filesToSandbox = Unset
    /\ repairedFiles = Unset
    /\ fixerOutcome = "none"
    /\ sandbox = NoSandbox
    /\ attempt = 0
    /\ isServerReady = FALSE
    /\ buildErrors = <<>>
    /\ thrown = NoError
    /\ result = NoResult

GenerateAppInputs ==
    [existingFiles : ExistingFilesInputs, editInstruction : EditInstructions,
     useBuggyCode : BOOLEAN, useFixer : BOOLEAN,
     sessionId : {Undefined, "s1"}, existingSandboxId : SandboxIds,
     files : {<<>>}]

FixerInputs ==
    [existingFiles : {NotGiven}, editInstruction : {Undefined},
     useBuggyCode : {FALSE}, useFixer : {FALSE},
     sessionId : {Undefined, "s1"}, existingSandboxId : SandboxIds,
     files : FixerInputFiles]

\* the server action is entered: the tracker is created and the first step started
Begin ==
    /\ op \in {"generateApp", "runBenchifyFixer"}
    /\ pc = "init"
    /\ LET created == IF Truthy(input.sessionId)
                      THEN newTracker(progressStore, input.sessionId,
                                      stepsFor(op, input.useFixer, input.existingSandboxId))
                      ELSE progressStore
       IN IF op = "generateApp"
          THEN /\ progressStore' = tStart(created, "generating-code")
               /\ pc' = "generateAppCode"
               /\ UNCHANGED filesToSandbox
          ELSE /\ progressStore' = tStart(created, "running-fixer")
               /\ pc' = "fixer.run"
               /\ filesToSandbox' = Arr(input.files)
    /\ UNCHANGED <<call, subscriber, op, input, llmFiles, codePath, repairedFiles, fixerOutcome,
                   sandbox, attempt, isServerReady, buildErrors, thrown, result>>

\* generateApp: await generateAppCode(...)
GenerateCode ==
    /\ op = "generateApp" /\ pc = "generateAppCode"
    /\ \E stream \in LLMStreams, readable \in BOOLEAN :
        LET r == generateAppCode(input.existingFiles, input.editInstruction,
                                 input.useBuggyCode, stream, readable)
        IN /\ codePath' = r.path
           /\ llmFiles' = IF r.path = "fixture" THEN llmFiles
                          ELSE [called |-> TRUE, throws |-> stream.throws,
                                files |-> stream.files]
           /\ \/ /\ r.ok
                 /\ filesToSandbox' = Arr(r.files)
                 /\ repairedFiles' = Arr(r.files)
                 /\ IF input.useFixer
                    THEN /\ progressStore' =
                                tStart(tComplete(progressStore, "generating-code"),
                                       "fixing-code")
                         /\ pc' = "runFixer"
                    ELSE /\ progressStore' =
                                provisionStore(tComplete(progressStore, "generating-code"))
                         /\ pc' = provisionPc
                 /\ UNCHANGED thrown
              \/ /\ ~r.ok
                 /\ Throw("generateAppCode", r.message, "llm")
                 /\ UNCHANGED <<filesToSandbox, repairedFiles, progressStore>>
    /\ UNCHANGED <<call, subscriber, op, input, fixerOutcome, sandbox, attempt, isServerReady,
                   buildErrors, result>>

\* generateApp: repairedFiles = await benchify.runFixer(filesToSandbox, ...) in its
\* own try/catch
RunFixer ==
    /\ op = "generateApp" /\ pc = "runFixer"
    /\ \E outcome \in {"throws", "files", "malformed"} :
        /\ fixerOutcome' = outcome
        /\ repairedFiles' =
              IF outcome = "files" THEN Arr(FixedFiles(filesToSandbox.files))
              ELSE IF outcome = "malformed" THEN Malformed
              ELSE repairedFiles
        /\ progressStore' =
              provisionStore(
                  IF outcome = "throws"
                  THEN tError(progressStore, "fixing-code",
                              "Fixer optimization failed, continuing with original code")
                  ELSE tComplete(progressStore, "fixing-code"))
    /\ pc' = provisionPc
    /\ UNCHANGED <<call, subscriber, op, input, llmFiles, codePath, filesToSandbox, sandbox,
                   attempt, isServerReady, buildErrors, thrown, result>>

\* runBenchifyFixer: await benchify.fixer.run(...)
FixerRun ==
    /\ op = "runBenchifyFixer" /\ pc = "fixer.run"
    /\ \E outcome \in {"throws", "files", "absent"} :
        /\ fixerOutcome' = outcome
        /\ \/ /\ outcome = "throws"
              /\ Throw("fixer.run", "Benchify API error", "fixer")
              /\ UNCHANGED <<repairedFiles, progressStore>>
           \/ /\ outcome # "throws"
              /\ repairedFiles' =
                    IF outcome = "files" THEN Arr(FixedFiles(input.files))
                    ELSE filesToSandbox
              /\ progressStore' =
                    provisionStore(tComplete(progressStore, "running-fixer"))
              /\ pc' = provisionPc
              /\ UNCHANGED thrown
    /\ UNCHANGED <<call, subscriber, op, input, llmFiles, codePath, filesToSandbox, sandbox,
                   attempt, isServerReady, buildErrors, result>>

\* repairedFiles is the very array filesToSandbox names unless the fixer replaced it
aliased == fixerOutcome \notin {"files", "malformed"}

\* Sandbox.create / Sandbox.connect, then applyTransformations(files), which
\* rewrites the file objects in place
Provision(position, mode, id) ==
    /\ pc = position
    /\ \/ /\ Throw(position, "Sandbox unavailable", "sandbox")
          /\ UNCHANGED <<sandbox, repairedFiles, filesToSandbox, progressStore>>
       \/ /\ sandbox' = [id |-> id, mode |-> mode, written |-> <<>>, install |-> "none"]
          /\ IF repairedFiles.kind # "array"
             THEN /\ Throw(position, "files is not iterable", "applyTransformations")
                  /\ UNCHANGED <<repairedFiles, filesToSandbox, progressStore>>
             ELSE /\ repairedFiles' = Arr(applyTransformations(repairedFiles.files))
                  /\ filesToSandbox' = IF aliased THEN repairedFiles' ELSE filesToSandbox
                  /\ progressStore' = IF mode = "update"
                                      THEN tStart(progressStore, "updating-files")
                                      ELSE progressStore
                  /\ pc' = "files.write"
                  /\ UNCHANGED thrown
    /\ UNCHANGED <<call, subscriber, op, input, llmFiles, codePath, fixerOutcome, attempt,
                   isServerReady, buildErrors, result>>

SandboxCreate == Provision("create", "fresh", "sbx-new")
SandboxConnect == Provision("connect", "update", input.existingSandboxId)

\* await sandbox.files.write(filesToWrite), up to the install command
FilesWrite ==
    /\ pc = "files.write"
    /\ \/ /\ Throw("files.write", "write failed", "sandbox")
          /\ UNCHANGED <<sandbox, progressStore>>
       \/ /\ sandbox' = [sandbox EXCEPT !.written = repairedFiles.files]
          /\ LET written == tComplete(progressStore,
                                IF UpdateMode THEN "updating-files"
                                ELSE "creating-sandbox")
                 installing == tStart(written, "installing-deps")
             IN IF needsInstall(repairedFiles.files)
                THEN /\ progressStore' = installing
                     /\ pc' = "npm-install"
                ELSE /\ progressStore' = afterInstallStore(installing)
                     /\ pc' = afterInstallPc
          /\ UNCHANGED thrown
    /\ UNCHANGED <<call, subscriber, op, input, llmFiles, codePath, filesToSandbox, repairedFiles,
                   fixerOutcome, attempt, isServerReady, buildErrors, result>>

\* await sandbox.commands.run(installCmd) inside its own try/catch
NpmInstall ==
    /\ pc = "npm-install"
    /\ \E outcome \in {"ok", "critical-stderr", "throws"} :
        /\ buildErrors' =
              IF UpdateMode \/ outcome = "ok" THEN buildErrors
              ELSE IF outcome = "critical-stderr"
              THEN Append(buildErrors,
                          [type |-> "build", message |-> "Package installation failed"])
              ELSE Append(buildErrors,
                          [type |-> "build", message |-> "Failed to install dependencies"])
        /\ sandbox' = [sandbox EXCEPT !.install = outcome]
    /\ progressStore' = afterInstallStore(progressStore)
    /\ pc' = afterInstallPc
    /\ UNCHANGED <<call, subscriber, op, input, llmFiles, codePath, filesToSandbox, repairedFiles,
                   fixerOutcome, attempt, isServerReady, thrown, result>>

\* createSandbox: await sandbox.commands.run('npm run dev', {background}) inside the
\* dev-server try/catch
DevServer ==
    /\ pc = "dev-server"
    /\ \/ /\ pc' = "health-check"
          /\ attempt' = 1
          /\ UNCHANGED <<buildErrors, progressStore>>
       \/ /\ buildErrors' = Append(buildErrors,
                 [type |-> "build", message |-> "Dev server failed to start"])
          /\ progressStore' = tStart(tComplete(progressStore, "starting-server"),
                                     "finalizing-preview")
          /\ pc' = "read-back"
          /\ UNCHANGED attempt
    /\ UNCHANGED <<call, subscriber, op, input, llmFiles, codePath, filesToSandbox, repairedFiles,
                   fixerOutcome, sandbox, isServerReady, thrown, result>>

\* updateSandboxFiles: the fixed wait for the hot reload
HotReload ==
    /\ pc = "hot-reload"
    /\ progressStore' = tStart(tComplete(progressStore, "hot-reloading"),
                               "verifying-update")
    /\ attempt' = 1
    /\ pc' = "health-check"
    /\ UNCHANGED <<call, subscriber, op, input, llmFiles, codePath, filesToSandbox, repairedFiles,
                   fixerOutcome, sandbox, isServerReady, buildErrors, thrown, result>>

\* the poll loop is left: createSandbox goes on to its output checks,
\* updateSandboxFiles to the read-back
leaveLoopStore(store) ==
    IF UpdateMode
    THEN tStart(tComplete(store, "verifying-update"), "finalizing-preview")
    ELSE store
leaveLoopPc == IF UpdateMode THEN "read-back" ELSE "post-check"

\* if (attempt < maxAttempts) await the poll interval
sleepsAfter_always(n) == TRUE
sleepsAfter(n) == n < maxAttempts

\* one attempt of the health-poll loop: the curl command, inside its try/catch, and
\* the break or the decision to sleep; without a sleep the loop's test fails next
HealthCheck ==
    /\ pc = "health-check"
    /\ \E stdout \in {"200", "503", "throws"} :
        IF stdout = "200"
        THEN /\ isServerReady' = TRUE
             /\ progressStore' = leaveLoopStore(progressStore)
             /\ pc' = leaveLoopPc
        ELSE IF sleepsAfter(attempt)
        THEN /\ pc' = "health-sleep"
             /\ UNCHANGED <<isServerReady, progressStore>>
        ELSE /\ progressStore' = leaveLoopStore(progressStore)
             /\ pc' = leaveLoopPc
             /\ UNCHANGED isServerReady
    /\ UNCHANGED <<call, subscriber, op, input, llmFiles, codePath, filesToSandbox, repairedFiles,
                   fixerOutcome, sandbox, attempt, buildErrors, thrown, result>>

\* the sleep between two attempts is over: attempt++ and the loop's test
HealthSleep ==
    /\ pc = "health-sleep"
    /\ attempt' = attempt + 1
    /\ IF attempt + 1 <= maxAttempts
       THEN /\ pc' = "health-check"
            /\ UNCHANGED progressStore
       ELSE /\ progressStore' = leaveLoopStore(progressStore)
            /\ pc' = leaveLoopPc
    /\ UNCHANGED <<call, subscriber, op, input, llmFiles, codePath, filesToSandbox, repairedFiles,
                   fixerOutcome, sandbox, isServerReady, buildErrors, thrown, result>>

\* createSandbox: the process listing, the log check, the build check and the
\* analysis of the dev server's output
PostCheck ==
    /\ pc = "post-check"
    /\ \E devOutput \in {"clean", "permission-stderr", "stderr", "stdout-error"},
          buildCheck \in {"clean", "compile-error", "ts-error", "throws"} :
        LET hasStderr == devOutput \in {"permission-stderr", "stderr"}
            hasErrorInStdout == devOutput = "stdout-error"
            isPermissionError == devOutput = "permission-stderr"
            hasCompilationError == buildCheck \in {"compile-error", "ts-error"}
        IN buildErrors' =
              IF hasCompilationError \/ ((hasStderr \/ hasErrorInStdout) /\ ~isPermissionError)
              THEN Append(buildErrors,
                          IF buildCheck = "ts-error"
                          THEN [type |-> "typescript", message |-> "TS2304"]
                          ELSE [type |-> "build", message |-> "error output"])
              ELSE buildErrors
    /\ progressStore' = tStart(tComplete(progressStore, "starting-server"),
                               "finalizing-preview")
    /\ pc' = "read-back"
    /\ UNCHANGED <<call, subscriber, op, input, llmFiles, codePath, filesToSandbox, repairedFiles,
                   fixerOutcome, sandbox, attempt, isServerReady, thrown, result>>

\* what createSandbox / updateSandboxFiles return
sandboxResult ==
    [sbxId |-> sandbox.id,
     url |-> "https://5173-host",
     allFiles |-> sandbox.written,
     buildErrors |-> IF UpdateMode THEN [defined |-> FALSE, errors |-> <<>>]
                     ELSE IF Len(buildErrors) > 0
                     THEN [defined |-> TRUE, errors |-> buildErrors]
                     ELSE [defined |-> FALSE, errors |-> <<>>],
     hasErrors |-> IF UpdateMode THEN ~isServerReady ELSE Len(buildErrors) > 0]

\* await fetchAllSandboxFiles(sandbox), the sandbox result and the server
\* action's return
ReadBack ==
    /\ pc = "read-back"
    /\ \/ /\ Throw("read-back", "list failed", "sandbox")
          /\ UNCHANGED <<progressStore, result>>
       \/ /\ progressStore' =
                LET inSandbox == IF UpdateMode
                                 THEN tComplete(progressStore, "finalizing-preview")
                                 ELSE progressStore
                IN IF op = "generateApp"
                   THEN tComplete(inSandbox, "finalizing-preview")
                   ELSE inSandbox
          /\ result' = [originalFiles |-> filesToSandbox.files,
                        repairedFiles |-> sandboxResult.allFiles,
                        previewUrl |-> sandboxResult.url,
                        sandboxId |-> sandboxResult.sbxId,
                        buildErrors |-> sandboxResult.buildErrors,
                        hasErrors |-> sandboxResult.hasErrors,
                        sessionId |-> input.sessionId]
          /\ pc' = "done"
          /\ UNCHANGED thrown
    /\ UNCHANGED <<call, subscriber, op, input, llmFiles, codePath, filesToSandbox, repairedFiles,
                   fixerOutcome, sandbox, attempt, isServerReady, buildErrors>>

\* the catch block of the server action
Catch ==
    /\ pc = "catch"
    /\ progressStore' =
          IF Truthy(input.sessionId)
          THEN LET currentState == progressStore[input.sessionId]
               IN IF currentState # NoState /\ currentState.currentStepIndex >= 0
                  THEN errorStep(progressStore, input.sessionId,
                           currentState.steps[currentState.currentStepIndex + 1].id,
                           thrown.message)
                  ELSE progressStore
          ELSE progressStore
    /\ result' = IF InTryBlock(thrown.at)
                 THEN [error |-> IF op = "generateApp" THEN "Failed to generate app"
                                 ELSE "Failed to run Benchify fixer",
                       message |-> thrown.message,
                       sessionId |-> input.sessionId]
                 ELSE [raised |-> thrown.message]
    /\ pc' = "done"
    /\ UNCHANGED <<call, subscriber, op, input, llmFiles, codePath, filesToSandbox, repairedFiles,
                   fixerOutcome, sandbox, attempt, isServerReady, buildErrors, thrown>>

Init ==
    /\ call = [fn |-> "none"]
    /\ \/ op = "generateApp" /\ input \in GenerateAppInputs
       \/ op = "runBenchifyFixer" /\ input \in FixerInputs
    /\ PipelineInit

Next ==
    \/ Begin
    \/ GenerateCode
    \/ RunFixer
    \/ FixerRun
    \/ SandboxCreate
    \/ SandboxConnect
    \/ FilesWrite
    \/ NpmInstall
    \/ DevServer
    \/ HotReload
    \/ HealthCheck
    \/ HealthSleep
    \/ PostCheck
    \/ ReadBack
    \/ Catch

Spec == Init /\ [][Next]_vars

\* every awaited call settles: a remote command returns, throws or runs into its
\* timeout, and a sleep's timer fires
SpecSettles == Init /\ [][Next]_vars /\ WF_vars(Next)

(***************************************************************************)
(* Specifications of the pure functions: the arguments are drawn from       *)
(* bounded sets and the one action applies the function.                    *)
(***************************************************************************)
Idle ==
    /\ op = "none"
    /\ input = [existingFiles |-> NotGiven, editInstruction |-> Undefined,
                useBuggyCode |-> FALSE, useFixer |-> FALSE, sessionId |-> Undefined,
                existingSandboxId |-> Undefined, files |-> <<>>]
    /\ PipelineInit

InitMerge ==
    /\ call \in [fn : {"mergeFiles"},
                 existingFiles : SeqsUpTo(File, MaxFiles),
                 updatedFiles : SeqsUpTo(File, MaxFiles),
                 returned : {FALSE}, ret : {<<>>}]
    /\ Idle

MergeFilesCall ==
    /\ call.fn = "mergeFiles" /\ ~call.returned
    /\ call' = [call EXCEPT !.returned = TRUE,
                            !.ret = mergeFiles(call.existingFiles, call.updatedFiles)]
    /\ UNCHANGED pipelineVars

SpecMerge == InitMerge /\ [][MergeFilesCall]_vars

InitClassify ==
    /\ call \in [fn : {"detectCodeErrors"},
                 output : SeqsUpTo(Tokens, MaxOutputLen),
                 returned : {FALSE},
                 ret : {[hasErrors |-> FALSE, errors |-> <<>>,
                         isInfrastructureOnly |-> FALSE]}]
    /\ Idle

DetectCodeErrorsCall ==
    /\ call.fn = "detectCodeErrors" /\ ~call.returned
    /\ call' = [call EXCEPT !.returned = TRUE, !.ret = detectCodeErrors(call.output)]
    /\ UNCHANGED pipelineVars

SpecClassify == InitClassify /\ [][DetectCodeErrorsCall]_vars

InitTs ==
    /\ call \in [fn : {"parseTypeScriptErrors"},
                 stderr : SeqsUpTo(TsTokens, MaxTsLen),
                 returned : {FALSE}, ret : {<<>>}]
    /\ Idle

ParseTypeScriptErrorsCall ==
    /\ call.fn = "parseTypeScriptErrors" /\ ~call.returned
    /\ call' = [call EXCEPT !.returned = TRUE, !.ret = parseTypeScriptErrors(call.stderr)]
    /\ UNCHANGED pipelineVars

SpecTs == InitTs /\ [][ParseTypeScriptErrorsCall]_vars

\* the statements a file handed to applyTransformations is made of, and its path
ContentTokens == {TailwindV3, ImportSingle, ImportDouble, RenderLegacy, RenderOdd, Filler}
TransformPaths == {"src/index.css", "src/main.tsx", "src/main.jsx", "index.html"}
\* a second file of the array
Companions ==
    {[path |-> "src/index.css", contents |-> <<TailwindV3>>],
     [path |-> "src/main.tsx", contents |-> <<ImportSingle, RenderLegacy>>]}
TransformInputs ==
    LET files == [path : TransformPaths, contents : SeqsUpTo(ContentTokens, MaxContentLen)]
    IN {<<f>> : f \in files} \cup {<<f, g>> : f \in files, g \in Companions}

\* original is the contents of the array when the caller built it, files is the
\* caller's array, once is what the first call returned, ret what the last call did
InitTransform ==
    /\ call \in {[fn |-> "applyTransformations", original |-> f, files |-> f,
                  calls |-> 0, once |-> <<>>, ret |-> <<>>] : f \in TransformInputs}
    /\ Idle

\* applyTransformations(files), and applyTransformations of what that returned
ApplyTransformationsCall ==
    /\ call.fn = "applyTransformations" /\ call.calls < 2
    /\ LET returned == applyTransformations(call.files)
       IN call' = [call EXCEPT !.files = returned,
                               !.ret = returned,
                               !.once = IF call.calls = 0 THEN returned ELSE @,
                               !.calls = @ + 1]
    /\ UNCHANGED pipelineVars

SpecTransform == InitTransform /\ [][ApplyTransformationsCall]_vars

(***************************************************************************)
(* The tracker driven through its own interface: a tracker is constructed   *)
(* for one session and startStep, completeStep and errorStep are called in  *)
(* any order with any step id.                                              *)
(***************************************************************************)
\* longest step list a tracker is constructed with
MaxSteps == 3

StepNames == <<"step-a", "step-b", "step-c", "step-d", "step-e">>
TrackerSession == "s1"

callChain == <<op, input, pc, llmFiles, codePath, filesToSandbox, repairedFiles,
               fixerOutcome, sandbox, attempt, isServerReady, buildErrors, thrown, result>>

\* what has been asked of the tracker so far: the steps completeStep was called for,
\* and whether the calls were only startStep on a step not yet finished and
\* completeStep
NoCalls == [fn |-> "ProgressTracker", completeCalled |-> {}, clean |-> TRUE]

InitTracker ==
    /\ call = NoCalls
    /\ Idle

\* the step lists a tracker is constructed with (a subscriber handles the state as
\* one value, so a single step is enough to tell the states it is given apart), and
\* the ids the tracker is called with: its steps' and one it does not have
StepLists ==
    IF call.fn = "ProgressTracker"
    THEN {SubSeq(StepNames, 1, n) : n \in 1..MaxSteps}
    ELSE {SubSeq(StepNames, 1, 1)}
CalledIds(state) ==
    IF state = NoState THEN {StepNames[1], StepNames[2]}
    ELSE {StepNames[i] : i \in 1..(Len(state.steps) + 1)}

stepStatus(state, stepId) == state.steps[findIndex(state.steps, stepId) + 1].status

\* the sessions whose trackers are driven: one, or all of them side by side
DrivenSessions == IF call.fn = "sessions" THEN SessionIds ELSE {TrackerSession}

\* the session the last tracker call was made for
noteTarget(sid) == [call EXCEPT !.target = sid]

\* new ProgressTracker(sessionId, steps)
NewTrackerCall ==
    /\ call.fn \in {"ProgressTracker", "subscribe", "sessions"}
    /\ \E sid \in DrivenSessions :
          /\ progressStore[sid] = NoState
          /\ \E steps \in StepLists :
                progressStore' = newTracker(progressStore, sid, steps)
          /\ call' = IF call.fn = "sessions" THEN noteTarget(sid)
                     ELSE IF call.fn = "subscribe" THEN [call EXCEPT !.constructed = TRUE]
                     ELSE call
    /\ UNCHANGED <<subscriber, callChain>>

\* whether the call did its work (the early returns are not taken)
Known(sid, stepId) == earlyReturn(progressStore, sid, stepId) = "none"

\* a tracker object exists: its session has state, or had before cleanup()
HasTracker(sid) ==
    \/ progressStore[sid] # NoState
    \/ call.fn = "subscribe" /\ call.constructed

\* the early return a subscriber's driver saw last
noteEarly(sid, stepId) ==
    IF Known(sid, stepId) THEN call
    ELSE [call EXCEPT !.early = earlyReturn(progressStore, sid, stepId)]

StartStepCall ==
    /\ call.fn \in {"ProgressTracker", "subscribe", "sessions"}
    /\ \E sid \in DrivenSessions :
          /\ HasTracker(sid)
          /\ \E stepId \in CalledIds(progressStore[sid]) :
                /\ progressStore' = startStep(progressStore, sid, stepId)
                /\ subscriber' = emitAfter(progressStore, progressStore', subscriber,
                                            sid, stepId)
                /\ call' = IF call.fn = "sessions" THEN noteTarget(sid)
                           ELSE IF call.fn = "subscribe" THEN noteEarly(sid, stepId)
                           ELSE IF Known(sid, stepId)
                           THEN [call EXCEPT !.clean =
                                    @ /\ stepStatus(progressStore[sid], stepId)
                                            \in {"pending", "in-progress"}]
                           ELSE call
    /\ UNCHANGED callChain

CompleteStepCall ==
    /\ call.fn \in {"ProgressTracker", "subscribe", "sessions"}
    /\ \E sid \in DrivenSessions :
          /\ HasTracker(sid)
          /\ \E stepId \in CalledIds(progressStore[sid]) :
                /\ progressStore' = completeStep(progressStore, sid, stepId)
                /\ subscriber' = emitAfter(progressStore, progressStore', subscriber,
                                            sid, stepId)
                /\ call' = IF call.fn = "sessions" THEN noteTarget(sid)
                           ELSE IF call.fn = "subscribe" THEN noteEarly(sid, stepId)
                           ELSE IF Known(sid, stepId)
                           THEN [call EXCEPT !.completeCalled = @ \cup {stepId}]
                           ELSE call
    /\ UNCHANGED callChain

ErrorStepCall ==
    /\ call.fn \in {"ProgressTracker", "subscribe", "sessions"}
    /\ \E sid \in DrivenSessions :
          /\ HasTracker(sid)
          /\ \E stepId \in CalledIds(progressStore[sid]) :
                /\ progressStore' = errorStep(progressStore, sid, stepId, "failed")
                /\ subscriber' = emitAfter(progressStore, progressStore', subscriber,
                                            sid, stepId)
                /\ call' = IF call.fn = "sessions" THEN noteTarget(sid)
                           ELSE IF call.fn = "subscribe" THEN noteEarly(sid, stepId)
                           ELSE IF Known(sid, stepId)
                           THEN [call EXCEPT !.clean = FALSE]
                           ELSE call
    /\ UNCHANGED callChain

NextTracker == NewTrackerCall \/ StartStepCall \/ CompleteStepCall \/ ErrorStepCall

\* the tracker in a run of a server action, or driven through its interface
InitProgress == Init \/ InitTracker
NextProgress == Next \/ NextTracker
SpecProgress == InitProgress /\ [][NextProgress]_vars

(***************************************************************************)
(* Subscriptions: one callback is handed to the instance's subscribe or to  *)
(* ProgressTracker.subscribe while the tracker is constructed and driven.   *)
(***************************************************************************)
InitSubscribe ==
    /\ call = [fn |-> "subscribe", constructed |-> FALSE, early |-> "none"]
    /\ Idle

\* tracker.subscribe(callback)
InstanceSubscribeCall ==
    /\ call.fn \in {"subscribe", "sessions"}
    /\ subscriber = NoSubscriber
    /\ \E sid \in DrivenSessions :
          /\ progressStore[sid] # NoState
          /\ subscriber' = instanceSubscribe(sid, progressStore[sid])
    /\ UNCHANGED <<call, progressStore, callChain>>

\* ProgressTracker.subscribe(sessionId, callback)
StaticSubscribeCall ==
    /\ call.fn \in {"subscribe", "sessions"}
    /\ subscriber = NoSubscriber
    /\ \E sid \in DrivenSessions :
          subscriber' = staticSubscribe(sid, progressStore[sid])
    /\ UNCHANGED <<call, progressStore, callChain>>

\* the timer set by setTimeout(pollForState, 50) fires
PollForState ==
    /\ call.fn \in {"subscribe", "sessions"}
    /\ subscriber # NoSubscriber
    /\ subscriber.polling
    /\ subscriber' = pollForState(subscriber, progressStore[subscriber.session])
    /\ UNCHANGED <<call, progressStore, callChain>>

\* the function subscribe returned is called
Unsubscribe ==
    /\ call.fn \in {"subscribe", "sessions"}
    /\ subscriber # NoSubscriber
    /\ subscriber.registered
    /\ subscriber' = [subscriber EXCEPT !.registered = FALSE]
    /\ UNCHANGED <<call, progressStore, callChain>>

\* tracker.cleanup()
CleanupCall ==
    /\ call.fn = "subscribe"
    /\ progressStore[TrackerSession] # NoState
    /\ progressStore' = cleanup(progressStore, TrackerSession)
    /\ subscriber' = clearSubscribers(subscriber, TrackerSession)
    /\ UNCHANGED <<call, callChain>>

NextSubscribe ==
    \/ NextTracker
    \/ CleanupCall
    \/ InstanceSubscribeCall
    \/ StaticSubscribeCall
    \/ PollForState
    \/ Unsubscribe

\* the event loop runs a timer that is due
SpecSubscribe == InitSubscribe /\ [][NextSubscribe]_vars /\ WF_vars(PollForState)

(***************************************************************************)
(* Sessions side by side: the trackers of all sessions are constructed and  *)
(* driven in any interleaving while one callback is subscribed to one of    *)
(* them; no tracker is cleaned up.                                          *)
(***************************************************************************)
InitSessions ==
    /\ call = [fn |-> "sessions", target |-> "none"]
    /\ Idle

NextSessions ==
    \/ NextTracker
    \/ InstanceSubscribeCall
    \/ StaticSubscribeCall
    \/ PollForState
    \/ Unsubscribe

SpecSessions == InitSessions /\ [][NextSessions]_vars

(***************************************************************************)
(* Properties                                                               *)
(***************************************************************************)
LastWithPath(files, path) ==
    files[CHOOSE i \in 1..Len(files) :
              files[i].path = path /\ \A j \in (i + 1)..Len(files) : files[j].path # path]

\* C1: mergeFiles(existing, updates) has exactly one entry per path of the union of
\* the two path sets; a path of updates carries the entry from updates (the last one
\* with that path), a path only in existing carries the existing entry unchanged.
C1_MergeUnion ==
    (call.fn = "mergeFiles" /\ call.returned) =>
        LET e == call.existingFiles
            u == call.updatedFiles
            r == call.ret
        IN /\ NoDuplicatePaths(r)
           /\ PathsOf(r) = PathsOf(e) \cup PathsOf(u)
           /\ \A i \in 1..Len(r) :
                 r[i] = IF r[i].path \in PathsOf(u)
                        THEN LastWithPath(u, r[i].path)
                        ELSE LastWithPath(e, r[i].path)

\* a merge that overwrote one existing path and preserved another
C1_Witness ==
    /\ call.fn = "mergeFiles" /\ call.returned
    /\ \E i \in 1..Len(call.existingFiles), j \in 1..Len(call.updatedFiles) :
          /\ call.existingFiles[i].path = call.updatedFiles[j].path
          /\ call.existingFiles[i].contents # call.updatedFiles[j].contents
    /\ PathsOf(call.existingFiles) \ PathsOf(call.updatedFiles) # {}

\* C2: merge identity: for a file set F (pairwise distinct paths), mergeFiles(F, [])
\* holds exactly the path/content pairs of F.
C2_MergeIdentity ==
    (/\ call.fn = "mergeFiles" /\ call.returned
     /\ call.updatedFiles = <<>>
     /\ NoDuplicatePaths(call.existingFiles)) =>
        /\ PairsOf(call.ret) = PairsOf(call.existingFiles)
        /\ Len(call.ret) = Len(call.existingFiles)

\* a merge of a two-file set with no updates
C2_Witness ==
    /\ call.fn = "mergeFiles" /\ call.returned
    /\ call.updatedFiles = <<>>
    /\ Len(call.existingFiles) = 2
    /\ NoDuplicatePaths(call.existingFiles)

IsSuccess(r) == {"previewUrl", "repairedFiles", "hasErrors"} \subseteq DOMAIN r
IsError(r) == DOMAIN r = {"error", "message", "sessionId"}

\* C3: generateApp and runBenchifyFixer never raise: whatever the LLM, the fixer and
\* the sandbox return or throw, the call goes on until it returns, and it returns a
\* success payload or an {error, message, sessionId} payload.
C3_NeverRaises ==
    /\ pc = "done" => (IsSuccess(result) \/ IsError(result))
    /\ pc # "done" => ENABLED Next

\* the sandbox collaborator threw and the action returned the error payload
C3_Witness ==
    /\ pc = "done"
    /\ thrown.by = "sandbox"
    /\ IsError(result)

statusOf(store, sessionId, i) == store[sessionId].steps[i].status

\* C4 (as claimed): the catch block marks the step that is in-progress as error with
\* the exception's message and sets hasError, and changes the status of no step that
\* is not in-progress.
C4_CatchMarksOnlyActiveStep ==
    [][(pc = "catch" /\ pc' = "done" /\ Truthy(input.sessionId)) =>
          LET sid == input.sessionId
          IN \A i \in 1..Len(progressStore[sid].steps) :
                IF statusOf(progressStore, sid, i) = "in-progress"
                THEN /\ statusOf(progressStore', sid, i) = "error"
                     /\ progressStore'[sid].steps[i].error = thrown.message
                     /\ progressStore'[sid].hasError
                ELSE statusOf(progressStore', sid, i) = statusOf(progressStore, sid, i)
      ]_vars

\* C5 (as claimed): when the fixer call of generateApp fails (throws, or answers
\* with something that is not a file list), provisioning gets exactly the pre-repair
\* files and the result is an error payload only if the sandbox itself threw.
C5_FixerFailureKeepsFiles ==
    (op = "generateApp" /\ fixerOutcome \in {"throws", "malformed"}) =>
        /\ repairedFiles = filesToSandbox
        /\ (pc = "done" /\ IsError(result)) => thrown.by = "sandbox"

EmptyLLMAnswer == llmFiles.called /\ ~llmFiles.throws /\ llmFiles.files = <<>>

\* C6: an empty file list from the LLM is a hard failure in generation and in edit
\* mode: the call throws, nothing is merged, no sandbox is provisioned, and
\* generateApp returns the error payload with the generating-code step marked error
\* (when the run has a tracker).
C6_EmptyIsHardFailure ==
    EmptyLLMAnswer =>
        /\ pc \in {"catch", "done"}
        /\ thrown.at = "generateAppCode"
        /\ filesToSandbox = Unset /\ repairedFiles = Unset
        /\ sandbox = NoSandbox
        /\ pc = "done" =>
              /\ IsError(result)
              /\ Truthy(input.sessionId) =>
                    LET state == progressStore[input.sessionId]
                        i == findIndex(state.steps, "generating-code") + 1
                    IN /\ state.steps[i].status = "error"
                       /\ state.steps[i].error = thrown.message
                       /\ state.hasError

\* an edit run with a tracker whose LLM call delivered no file
C6_Witness ==
    /\ EmptyLLMAnswer
    /\ codePath = "edit"
    /\ Truthy(input.sessionId)
    /\ pc = "done"

BeforeProvisioning == pc \in {"runFixer", "create", "connect"}

\* what each branch of generateAppCode does
PathEffects ==
    /\ llmFiles.called <=> codePath \in {"edit", "generate"}
    /\ (BeforeProvisioning /\ codePath = "edit") =>
          filesToSandbox = Arr(mergeFiles(input.existingFiles.files, llmFiles.files))
    /\ (BeforeProvisioning /\ codePath = "generate") =>
          filesToSandbox = Arr(llmFiles.files)
    /\ (BeforeProvisioning /\ codePath = "fixture") =>
          \E readable \in BOOLEAN : filesToSandbox = Arr(buggyCode(readable))

\* C7 (as claimed): the edit path runs iff existingFiles and editInstruction are both
\* supplied; otherwise the fixture iff useBuggyCode, and fresh generation if not.
C7_EditIffBothSupplied ==
    codePath # "none" =>
        /\ codePath = "edit" <=>
              (input.existingFiles.given /\ input.editInstruction # Undefined)
        /\ codePath # "edit" => (codePath = "fixture" <=> input.useBuggyCode)
        /\ PathEffects

\* C7 (amended): the edit path runs iff existingFiles is supplied and editInstruction
\* is supplied and not the empty string; otherwise the fixture iff useBuggyCode, and
\* fresh generation if not; exactly one path runs and useBuggyCode does not matter
\* in edit mode.
C7_EditIffInstructionNonEmpty ==
    codePath # "none" =>
        /\ codePath = "edit" <=>
              (/\ input.existingFiles.given
               /\ input.editInstruction # Undefined
               /\ input.editInstruction # "")
        /\ codePath # "edit" => (codePath = "fixture" <=> input.useBuggyCode)
        /\ PathEffects

\* existing files and an empty edit instruction: fresh generation ran
C7_Witness ==
    /\ input.existingFiles.given
    /\ input.editInstruction = ""
    /\ ~input.useBuggyCode
    /\ codePath = "generate"
    /\ BeforeProvisioning

HasCodeMarker(output) == \E m \in CodeMarkers : includes(output, <<m>>)
HasInfraMarker(output) == \E m \in OutputInfraMarkers : includes(output, m)
Classified == call.fn = "detectCodeErrors" /\ call.returned

\* C8: an output with at least one infrastructure-noise marker and no code-error
\* marker is classified hasErrors=false, isInfrastructureOnly=true, errors=[].
C8_InfraSuppression ==
    (Classified /\ HasInfraMarker(call.output) /\ ~HasCodeMarker(call.output)) =>
        call.ret = [hasErrors |-> FALSE, errors |-> <<>>, isInfrastructureOnly |-> TRUE]

\* an output with the config-load marker and no code-error marker was classified
C8_Witness ==
    /\ Classified
    /\ includes(call.output, <<FailedToLoadConfig, FromViteConfig>>)
    /\ ~HasCodeMarker(call.output)

\* C9 (as claimed): an output with a code-error marker and none of the whole-output
\* infrastructure markers is classified hasErrors=true with at least one error of
\* type build, and hasErrors=true never comes with an empty error list.
C9_DetectionListsAnError ==
    Classified =>
        /\ (HasCodeMarker(call.output) /\ ~HasInfraMarker(call.output)) =>
              /\ call.ret.hasErrors
              /\ \E i \in 1..Len(call.ret.errors) : call.ret.errors[i].type = "build"
        /\ call.ret.hasErrors => call.ret.errors # <<>>

\* C10 (as claimed): an output with a code-error marker is classified
\* hasErrors=true, also when it holds infrastructure-noise markers.
C10_CodeErrorsAlwaysSurfaced ==
    (Classified /\ HasCodeMarker(call.output)) => call.ret.hasErrors

\* the line reads file(line,col): error TSxxxx: message with the location at i: a
\* file text, the location, the separator and a message text
TsForm(line, i) ==
    /\ SubSeq(line, 1, i - 1) # <<>>
    /\ line[i] = TsLoc
    /\ i + 1 <= Len(line) /\ line[i + 1] = TsErr
    /\ SubSeq(line, i + 2, Len(line)) # <<>>

\* the file with an '/app/' prefix removed
WithoutAppPrefix(file) == IF Head(file) = AppDir THEN Tail(file) ELSE file

\* what the claim expects of one line
RECURSIVE ExpectedTsErrors(_)
ExpectedTsErrors(lines) ==
    IF lines = <<>> THEN <<>>
    ELSE LET line == Head(lines)
         IN (IF \E i \in 1..Len(line) : TsForm(line, i)
             THEN LET i == CHOOSE k \in 1..Len(line) : TsForm(line, k)
                      message == SubSeq(line, i + 2, Len(line))
                  IN IF \E j \in 1..Len(message) : message[j] = TsDeprecated
                     THEN <<>>
                     ELSE <<[type |-> "typescript",
                             message |-> trim(message),
                             file |-> WithoutAppPrefix(SubSeq(line, 1, i - 1)),
                             line |-> 10,
                             column |-> 5]>>
             ELSE <<>>) \o ExpectedTsErrors(Tail(lines))

\* C11 (as claimed): parseTypeScriptErrors yields, for each line of the form
\* file(line,col): error TSxxxx: message, exactly one error of type typescript with
\* that file less an '/app/' prefix, the line, the column and the message, nothing
\* for a line whose message holds "deprecated" (in any case), and nothing for a
\* line that is not of that form.
C11_OneErrorPerDiagnosticLine ==
    (call.fn = "parseTypeScriptErrors" /\ call.returned) =>
        call.ret = ExpectedTsErrors(splitLines(call.stderr))

\* C12 (as claimed): applyTransformations is idempotent: applying it to its own
\* result gives the same path/content pairs, for the CSS-directive rewrite and for
\* the ReactDOM.render rewrite, files with several legacy render calls included.
C12_TransformIdempotent ==
    (call.fn = "applyTransformations" /\ call.calls = 2) => call.ret = call.once

\* the files the generation / edit step produced
IsGenerationOutput(files) ==
    IF codePath = "edit" THEN files = mergeFiles(input.existingFiles.files, llmFiles.files)
    ELSE IF codePath = "generate" THEN files = llmFiles.files
    ELSE \E readable \in BOOLEAN : files = buggyCode(readable)

\* C13 (as claimed): applyTransformations leaves the file set passed to it
\* unchanged, so the originalFiles generateApp returns hold the content the
\* generation / edit step produced.
C13_OriginalFilesKeepGeneratedContent ==
    (op = "generateApp" /\ pc = "done" /\ IsSuccess(result)) =>
        IsGenerationOutput(result.originalFiles)

HasRender(file) == \E k \in 1..Len(file.contents) : file.contents[k] \in RenderTokens
HasLegacyRender(file) == \E k \in 1..Len(file.contents) : file.contents[k] = RenderLegacy
TailwindTrigger(file) ==
    file.path \in CssPaths /\ \E k \in 1..Len(file.contents) : file.contents[k] = TailwindV3
RenderTrigger(file) == file.path \in JsxPaths /\ HasRender(file)

\* C14 (as claimed): a .tsx/.jsx file that holds 'ReactDOM.render(' but no call of
\* the expected shape comes out of the transformation exactly as it went in, import
\* line included, and a file that matches neither rewrite's trigger is not changed.
C14_UnmatchedFilesUntouched ==
    (call.fn = "applyTransformations" /\ call.calls = 1) =>
        \A i \in 1..Len(call.original) :
            LET file == call.original[i]
            IN /\ (RenderTrigger(file) /\ ~HasLegacyRender(file)) => call.ret[i] = file
               /\ (~RenderTrigger(file) /\ ~TailwindTrigger(file)) => call.ret[i] = file

TrackerStates == {progressStore[sid] : sid \in SessionIds} \ {NoState}
\* one call, and the calls a server action makes between two awaits
Allowed(from, to) ==
    \/ from = to
    \/ from = "pending" /\ to = "in-progress"
    \/ from = "in-progress" /\ to \in {"completed", "error"}
AllowedPath(from, to) ==
    \/ Allowed(from, to)
    \/ from = "pending" /\ to \in {"completed", "error"}

\* C15 (as claimed): whatever startStep / completeStep / errorStep calls are made
\* (by a server action's run or directly), a step's status only moves
\* pending -> in-progress -> completed or error, and a step that is completed or
\* error keeps its status.
C15_StepStateMachine ==
    [][\A sid \in SessionIds :
          (progressStore[sid] # NoState /\ progressStore'[sid] # NoState) =>
              \A i \in 1..Len(progressStore[sid].steps) :
                  IF call.fn = "ProgressTracker"
                  THEN Allowed(statusOf(progressStore, sid, i),
                               statusOf(progressStore', sid, i))
                  ELSE AllowedPath(statusOf(progressStore, sid, i),
                                   statusOf(progressStore', sid, i))
      ]_vars

InProgress(state) == {i \in 1..Len(state.steps) : state.steps[i].status = "in-progress"}

\* C16: in every state of a run of generateApp or runBenchifyFixer (fresh or update
\* in place, with or without the fixer step) at most one step is in-progress.
C16_AtMostOneInProgress ==
    \A state \in TrackerStates : Cardinality(InProgress(state)) <= 1

\* an update-in-place run whose fixer step failed, polling the server
C16_Witness ==
    /\ op = "generateApp" /\ UpdateMode /\ input.useFixer /\ Truthy(input.sessionId)
    /\ fixerOutcome = "throws"
    /\ pc = "health-check"
    /\ Cardinality(InProgress(progressStore[input.sessionId])) = 1

TrackerDriven == call.fn = "ProgressTracker" /\ progressStore[TrackerSession] # NoState
StepIdsOf(state) == {state.steps[i].id : i \in 1..Len(state.steps)}

\* C17: for a tracker with a non-empty list of steps (distinct ids) that is driven
\* through completeStep (after startStep or not, in any order), isComplete is true
\* once completeStep has been called for every step and false before that.
C17_CompleteIffAllCompleted ==
    (TrackerDriven /\ call.clean) =>
        LET state == progressStore[TrackerSession]
        IN state.isComplete <=> call.completeCalled = StepIdsOf(state)

\* three steps completed, the first of them the only one that was started
C17_Witness ==
    /\ TrackerDriven /\ call.clean
    /\ Len(progressStore[TrackerSession].steps) = 3
    /\ progressStore[TrackerSession].currentStepIndex = 0
    /\ progressStore[TrackerSession].isComplete

\* C18: startStep(id) for a step the tracker has sets currentStepIndex to that
\* step's index and the step to in-progress and changes no other step, and
\* completeStep leaves currentStepIndex alone (so after startStep(s1),
\* completeStep(s1), startStep(s2) the index is that of s2 and s1 is completed); in
\* a run of a server action currentStepIndex never decreases.
C18_StartStepSetsIndex ==
    [][/\ \A stepId \in {StepNames[i] : i \in 1..Len(StepNames)} :
             (/\ TrackerDriven
              /\ Known(TrackerSession, stepId)
              /\ progressStore' = startStep(progressStore, TrackerSession, stepId)) =>
                 LET before == progressStore[TrackerSession]
                     after == progressStore'[TrackerSession]
                     k == findIndex(before.steps, stepId)
                 IN /\ after.currentStepIndex = k
                    /\ after.steps[k + 1].status = "in-progress"
                    /\ \A i \in 1..Len(before.steps) :
                          i # k + 1 => after.steps[i] = before.steps[i]
       /\ \A stepId \in {StepNames[i] : i \in 1..Len(StepNames)} :
             (/\ TrackerDriven
              /\ Known(TrackerSession, stepId)
              /\ progressStore' = completeStep(progressStore, TrackerSession, stepId)) =>
                 /\ progressStore'[TrackerSession].currentStepIndex =
                       progressStore[TrackerSession].currentStepIndex
                 /\ stepStatus(progressStore'[TrackerSession], stepId) = "completed"
       /\ (op # "none" /\ Truthy(input.sessionId)
           /\ progressStore[input.sessionId] # NoState) =>
              progressStore'[input.sessionId].currentStepIndex >=
                 progressStore[input.sessionId].currentStepIndex
      ]_vars

\* the first step completed and the second one started
C18_Witness ==
    /\ TrackerDriven
    /\ Len(progressStore[TrackerSession].steps) = 3
    /\ progressStore[TrackerSession].steps[1].status = "completed"
    /\ progressStore[TrackerSession].steps[2].status = "in-progress"
    /\ progressStore[TrackerSession].steps[3].status = "pending"
    /\ progressStore[TrackerSession].currentStepIndex = 1

Subscribed == subscriber # NoSubscriber

\* C19: a callback handed to the instance's subscribe or to the class-level
\* subscribe while state for the session exists is called with that state before
\* subscribe returns: the first state it is ever given is the state at subscription,
\* and no poll is scheduled.
C19_ReplayOnSubscribe ==
    (Subscribed /\ subscriber.atSubscribe # NoState) =>
        /\ subscriber.first = subscriber.atSubscribe
        /\ ~subscriber.polling /\ subscriber.attempts = 0

\* a class-level subscriber that was given the state at subscription, after a later
\* update
C19_Witness ==
    /\ Subscribed /\ subscriber.kind = "static" /\ subscriber.registered
    /\ subscriber.atSubscribe # NoState
    /\ progressStore[TrackerSession] # subscriber.atSubscribe

EarlySubscriber ==
    Subscribed /\ subscriber.kind = "static" /\ subscriber.atSubscribe = NoState
Polling == Subscribed /\ subscriber.polling

\* C20: a callback handed to the class-level subscribe before state exists polls the
\* registry at most 20 times, is given the state by the poll at most once, by the
\* first poll that finds it, after which no poll is scheduled; after the 20th poll
\* that finds nothing no poll is scheduled and the callback has not been called by
\* the poll; the polling always ends.
C20_PollingBoundedAndEnds ==
    /\ [](EarlySubscriber =>
             /\ subscriber.attempts <= MaxPollAttempts
             /\ subscriber.polled <= 1
             /\ subscriber.polled = 1 => ~subscriber.polling
             /\ subscriber.attempts = MaxPollAttempts => ~subscriber.polling
             /\ (subscriber.polled = 0 /\ ~subscriber.polling) =>
                   subscriber.attempts = MaxPollAttempts)
    /\ [][(Polling /\ subscriber'.attempts = subscriber.attempts + 1) =>
             IF progressStore[TrackerSession] # NoState
             THEN subscriber'.polled = subscriber.polled + 1 /\ ~subscriber'.polling
             ELSE subscriber'.polled = subscriber.polled
         ]_vars
    /\ [](Polling => <>(~Polling))

\* twenty polls found no state and the polling stopped
C20_Witness ==
    /\ EarlySubscriber
    /\ subscriber.attempts = MaxPollAttempts
    /\ subscriber.polled = 0
    /\ ~subscriber.polling
    /\ progressStore[TrackerSession] = NoState

\* C21 (as claimed): once the function subscribe returned has been called, the
\* callback is never called again, whatever tracker creation, step updates and
\* pending polls follow; a subscription made before the session's state existed
\* delivers nothing after it was unsubscribed.
C21_NoCallAfterUnsubscribe ==
    Subscribed => ~subscriber.late

Returned == op \in {"generateApp", "runBenchifyFixer"} /\ pc = "done"

\* C22 (as claimed): cleanup() is called once per pipeline operation: after
\* generateApp or runBenchifyFixer has returned (success or error payload) the
\* registry holds no entry for the operation's sessionId.
C22_RegistryEmptyAfterReturn ==
    (Returned /\ Truthy(input.sessionId)) => progressStore[input.sessionId] = NoState

InstallFailed == sandbox.install \in {"critical-stderr", "throws"}
\* the health-poll loop ran and no attempt returned 200
NeverReady == attempt >= 1 /\ ~isServerReady /\ pc \in {"post-check", "read-back", "done"}

\* C23 (as claimed): in fresh and in update-in-place mode a failed dependency
\* installation and a health check that never returns 200 are not raised, and each
\* is recorded as a BuildError in the buildErrors the sandbox function returns.
C23_FailuresRecordedAsBuildErrors ==
    /\ thrown.at \notin {"npm-install", "dev-server", "health-check"}
    /\ (Returned /\ IsSuccess(result) /\ (InstallFailed \/ NeverReady)) =>
          result.buildErrors.defined /\ Len(result.buildErrors.errors) > 0

AnyStepIds == {StepNames[i] : i \in 1..Len(StepNames)}
NotFound(sid, stepId) ==
    progressStore[sid] = NoState \/ stepId \notin StepIdsOf(progressStore[sid])

\* C24: startStep, completeStep and errorStep called when the session has no stored
\* state or with a step id that is not in the step list leave the registry, and so
\* every step, unchanged and call no subscriber.
C24_NoOpWhenNotFound ==
    \A sid \in SessionIds, stepId \in AnyStepIds :
        NotFound(sid, stepId) =>
            \A after \in {startStep(progressStore, sid, stepId),
                           completeStep(progressStore, sid, stepId),
                           errorStep(progressStore, sid, stepId, "failed")} :
                /\ after = progressStore
                /\ emitAfter(progressStore, after, subscriber, sid, stepId) = subscriber

\* a call with an id the tracker does not have, made while a registered callback
\* had not been given any state yet
C24_Witness ==
    /\ call.fn = "subscribe" /\ call.early = "no-step"
    /\ progressStore[TrackerSession] # NoState
    /\ Subscribed /\ subscriber.registered /\ subscriber.first = NoState

InLoop == pc \in {"health-check", "health-sleep"}

\* C25: the health-poll loops end: at most 20 attempts in fresh mode and 10 in
\* update-in-place mode, the loop is left at the first attempt that returns 200, an
\* attempt that throws counts as a failed one, no sleep follows the last attempt,
\* and after the loop the run always gets to the file read-back, whether the
\* server became ready or not.
C25_HealthPollTerminates ==
    /\ [](/\ InLoop => (attempt >= 1 /\ attempt <= maxAttempts /\ ~isServerReady)
          /\ maxAttempts = IF UpdateMode THEN 10 ELSE 20
          /\ pc = "health-sleep" => attempt < maxAttempts)
    /\ [][pc = "health-check" =>
             \/ pc' = "health-sleep" /\ attempt' = attempt /\ ~isServerReady'
             \/ pc' = leaveLoopPc /\ (isServerReady' \/ attempt = maxAttempts)
         ]_vars
    /\ [][pc = "health-sleep" => (pc' = "health-check" /\ attempt' = attempt + 1)]_vars
    /\ [](InLoop => <>(pc = "read-back"))

\* the last attempt of an update-in-place run failed and the read-back is next
C25_Witness ==
    /\ UpdateMode
    /\ pc = "read-back"
    /\ attempt = MaxAttemptsUpdate
    /\ ~isServerReady

\* C26: the sessions are independent under any interleaving of the calls made for
\* distinct session ids: a tracker call for one session changes the stored state of
\* no other session, and a callback subscribed for a session is only ever called
\* with a state of that session.
C26_SessionsIndependent ==
    /\ [](Subscribed =>
             /\ ~subscriber.foreign
             /\ subscriber.first # NoState => subscriber.first.sessionId = subscriber.session)
    /\ [](\A sid \in SessionIds :
             progressStore[sid] # NoState => progressStore[sid].sessionId = sid)
    /\ [][\A sid \in SessionIds :
             progressStore'[sid] # progressStore[sid] => call'.target = sid]_vars

\* a callback registered for one session, still waiting for its first state, right
\* after a step of the other session failed
C26_Witness ==
    /\ call.fn = "sessions"
    /\ Subscribed /\ subscriber.registered /\ subscriber.first = NoState
    /\ \E sid \in SessionIds \ {subscriber.session} :
          /\ call.target = sid
          /\ progressStore[sid] # NoState /\ progressStore[sid].hasError
    /\ progressStore[subscriber.session] = NoState

AllCompleted(state) == \A i \in 1..Len(state.steps) : state.steps[i].status = "completed"

\* C27 (as claimed): whenever generateApp or runBenchifyFixer returns a success
\* payload and no step was marked error during the run, the final progress state
\* has every declared step completed and isComplete = true, in fresh mode and in
\* update-in-place mode.
C27_SuccessCompletesEveryStep ==
    (Returned /\ IsSuccess(result) /\ Truthy(input.sessionId)
        /\ ~progressStore[input.sessionId].hasError) =>
            /\ AllCompleted(progressStore[input.sessionId])
            /\ progressStore[input.sessionId].isComplete

\* C28 (as claimed): in every reachable state of a tracker, after any sequence of
\* startStep / completeStep / errorStep calls, isComplete = true implies that every
\* step currently has status completed.
C28_CompleteImpliesAllCompleted ==
    \A state \in TrackerStates : state.isComplete => AllCompleted(state)

HasErrorStep(state) == \E i \in 1..Len(state.steps) : state.steps[i].status = "error"

\* C29 (as claimed): in every reachable state of a tracker, after any sequence of
\* startStep / completeStep / errorStep calls, hasError is true if and only if at
\* least one step currently has status error.
C29_HasErrorIffErrorStep ==
    \A state \in TrackerStates : state.hasError <=> HasErrorStep(state)

\* C30 (as claimed): every sandbox result createSandbox or updateSandboxFiles
\* returns (handed on in the server action's success payload) is self-consistent:
\* hasErrors is true if and only if buildErrors is present and non-empty.
C30_HasErrorsIffBuildErrors ==
    (Returned /\ IsSuccess(result)) =>
        (result.hasErrors <=>
            (result.buildErrors.defined /\ Len(result.buildErrors.errors) > 0))

====
